---- MODULE Spec2Model ----
(***************************************************************************)
(* Model of src/app.py of the Singapore History chatbot: the remote        *)
(* generation function query_huggingface_model (retry loop around one      *)
(* HTTP POST) and the retrieval-augmented wrapper query_with_rag.          *)
(*                                                                         *)
(* Texts are sequences of tokens; a token stands for a chunk of            *)
(* characters.  An f-string is the concatenation of its pieces.            *)
(***************************************************************************)
EXTENDS Integers, Sequences, FiniteSets, TLC

VARIABLES
    prompt,         \* the user's question handed to answer()
    max_retries,    \* max_retries argument
    vector_store,   \* "present" / "absent": the collection handle
    secrets,        \* TRUE iff st.secrets holds HF_API_TOKEN
    pc,             \* position of the call
    results,        \* outcome of collection.query (NoResults before it ran)
    call_site,      \* where query_huggingface_model was last called from
    gen_prompts,    \* prompts passed to query_huggingface_model, in order
    attempt,        \* loop variable of the retry loop
    log,            \* events of the retry loop: HTTP posts and sleeps
    result,         \* text returned to the caller of answer()
    raised,         \* exception propagated to the caller ("" = none)
    index_queries,  \* number of collection.query calls of this answer()
    messages        \* st.session_state.messages

vars == <<prompt, max_retries, vector_store, secrets, pc, results, call_site,
          gen_prompts, attempt, log, result, raised, index_queries, messages>>

----------------------------------------------------------------------------
(* Bounds *)

MaxRetriesBound == 3
MaxDocs == 2
MaxTurns == 2

RetryValues == -1..MaxRetriesBound

----------------------------------------------------------------------------
(* Texts *)

NL == "\n"
WS == {" ", NL}

Queries == {<<"When">>, <<"When", " ", "founded?">>}
Documents == {<<"A founded in 1819">>, <<"Treaty", " ", "signed 1824">>}

Texts == {<< >>, <<" ">>, <<"answer">>, <<" ", "an", " ", "swer", NL>>}

RECURSIVE LStrip(_)
LStrip(s) == IF s # << >> /\ Head(s) \in WS THEN LStrip(Tail(s)) ELSE s

RECURSIVE RStrip(_)
RStrip(s) ==
    IF s # << >> /\ s[Len(s)] \in WS THEN RStrip(SubSeq(s, 1, Len(s) - 1))
    ELSE s

StripLeftOnly(s) == LStrip(s)

\* str.strip()
Strip(s) == RStrip(LStrip(s))

JoinReversed(sep, parts) ==
    LET RECURSIVE J(_)
        J(k) == IF k = 0 THEN << >>
                ELSE IF k = 1 THEN parts[1]
                ELSE parts[k] \o <<sep>> \o J(k - 1)
    IN J(Len(parts))

\* sep.join(parts)
Join(sep, parts) ==
    LET RECURSIVE J(_)
        J(k) == IF k = 0 THEN << >>
                ELSE IF k = 1 THEN parts[1]
                ELSE J(k - 1) \o <<sep>> \o parts[k]
    IN J(Len(parts))

----------------------------------------------------------------------------
(* Messages returned by query_huggingface_model *)

MsgParseError == <<"I encountered an error processing the response. Please try again.">>
MsgInitializing == <<"The model is currently initializing. Please try again shortly.">>
MsgAccessDenied == <<"Access denied (HTTP 403). Your API token may not have permission to use this model.">>
MsgTimedOut == <<"The request timed out. Please try again in a moment.">>
MsgUnable == <<"Unable to get a response after multiple attempts. Please try again later.">>

MsgStatus(status) ==
    <<"Sorry, I encountered an error (Status code: ", status, "). Please try again later.">>
MsgException(e) ==
    <<"An error occurred: ", e, ". Please try again later.">>

ColdStartBackoff == 15
TimeoutBackoffLonger == ColdStartBackoff
TimeoutBackoff == 10

----------------------------------------------------------------------------
(* Prompt templates *)

SystemPreamble ==
    <<"You are a helpful assistant specialized in Singapore history. Keep your answers factual, informative and focused on Singapore's history.", NL, NL>>
QuestionCue == "Question: "
AnswerCue == "Answer:"
ContextCue == "Context information:\n"
Instruction == "Based on this context, answer the following question about Singapore history:\n"

\* prompt_with_context of query_huggingface_model
prompt_with_context(p) ==
    SystemPreamble \o <<QuestionCue>> \o p \o <<NL, NL, AnswerCue>>

\* rag_prompt of query_with_rag
rag_prompt(contexts, p) ==
    <<ContextCue>> \o Join(NL, contexts) \o <<NL, NL, Instruction, QuestionCue>>
        \o p \o <<NL, NL, AnswerCue>>

----------------------------------------------------------------------------
(* The vector index: what collection.query can produce *)

\* Python value returned by collection.query:
\*   isNone         the value None
\*   keys           the keys of the dict
\*   docsIsNone     results["documents"] is None
\*   documents      results["documents"], a list of lists of texts
\*   raises         collection.query raised instead of returning
QueryResult(isNone, keys, docsIsNone, documents, raises) ==
    [isNone |-> isNone, keys |-> keys, docsIsNone |-> docsIsNone,
     documents |-> documents, raises |-> raises]

NoResults == QueryResult(FALSE, {}, FALSE, << >>, FALSE)

DocLists == UNION {[1..n -> Documents] : n \in 0..MaxDocs}

QueryOutcomes ==
    {QueryResult(FALSE, {}, FALSE, << >>, TRUE)}                        \* raises
    \cup {QueryResult(TRUE, {}, FALSE, << >>, FALSE)}                   \* None
    \cup {QueryResult(FALSE, {}, FALSE, << >>, FALSE)}                  \* {}
    \cup {QueryResult(FALSE, {"ids"}, FALSE, << >>, FALSE)}             \* no "documents"
    \cup {QueryResult(FALSE, {"ids", "documents"}, TRUE, << >>, FALSE)} \* documents: None
    \cup {QueryResult(FALSE, {"ids", "documents"}, FALSE, << >>, FALSE)} \* documents: []
    \cup {QueryResult(FALSE, {"ids", "documents"}, FALSE, <<d>>, FALSE) : d \in DocLists}

\* truth value of `results` (None and the empty dict are falsy)
Truthy(r) == ~r.isNone /\ r.keys # {}

----------------------------------------------------------------------------
(* The inference endpoint: what requests.post can produce *)

\* JSON body of a response:
\*   parses      response.json() succeeds
\*   type        "list", "dict" or "other" (string, number, null)
\*   len         length of the list
\*   elemIsDict  the first element of the list is an object
\*   hasField    the object has a generated_text field
\*   isStr       the value of the field is a string
\*   text        the value of the field; for "other", str(response_json)
Body(parses, type, len, elemIsDict, hasField, isStr, text) ==
    [parses |-> parses, type |-> type, len |-> len, elemIsDict |-> elemIsDict,
     hasField |-> hasField, isStr |-> isStr, text |-> text]

NoBody == Body(FALSE, "other", 0, FALSE, FALSE, FALSE, << >>)

Bodies ==
    {NoBody}                                                               \* not JSON
    \cup {Body(TRUE, "list", 1, TRUE, TRUE, TRUE, t) : t \in Texts}        \* [{"generated_text": t}]
    \cup {Body(TRUE, "list", 1, TRUE, TRUE, FALSE, << >>)}                 \* [{"generated_text": null}]
    \cup {Body(TRUE, "list", 1, TRUE, FALSE, FALSE, << >>)}                \* [{}]
    \cup {Body(TRUE, "list", 1, FALSE, FALSE, FALSE, << >>)}               \* ["x"]
    \cup {Body(TRUE, "list", 0, FALSE, FALSE, FALSE, <<"[]">>)}            \* []
    \cup {Body(TRUE, "dict", 0, FALSE, TRUE, TRUE, t) : t \in Texts}       \* {"generated_text": t}
    \cup {Body(TRUE, "dict", 0, FALSE, TRUE, FALSE, << >>)}                \* {"generated_text": null}
    \cup {Body(TRUE, "dict", 0, FALSE, FALSE, FALSE, <<"error">>)}         \* {"error": ...}
    \cup {Body(TRUE, "other", 0, FALSE, FALSE, FALSE, t) : t \in {<< >>, <<"None">>}} \* "" / null

\* outcome of one requests.post:
\*   exc     "" when a response came back, else the exception class
\*   status  response.status_code
\*   body    response body
Outcome(exc, status, body) == [exc |-> exc, status |-> status, body |-> body]

Statuses == {"503", "403", "500", "404"}
Exceptions == {"Timeout", "ConnectionError"}

PostOutcomes ==
    {Outcome("", "200", b) : b \in Bodies}
    \cup {Outcome("", s, NoBody) : s \in Statuses}
    \cup {Outcome(e, "", NoBody) : e \in Exceptions}

NoOutcome == Outcome("", "", NoBody)

PostEvent(inputs, out) == [ev |-> "post", inputs |-> inputs, out |-> out, secs |-> 0]
SleepEvent(secs) == [ev |-> "sleep", inputs |-> << >>, out |-> NoOutcome, secs |-> secs]

----------------------------------------------------------------------------
(* query_huggingface_model: handling of one response *)

Returns(text) == [returns |-> TRUE, text |-> text, secs |-> 0]
Retries(secs) == [returns |-> FALSE, text |-> << >>, secs |-> secs]

\* the 200 branch: response.json(), the three body formats, .strip();
\* any exception in it yields the parse-error message
parse_response(body) ==
    IF ~body.parses THEN MsgParseError
    ELSE IF body.type = "list" /\ body.len > 0 THEN
        IF ~body.elemIsDict THEN MsgParseError
        ELSE IF ~body.hasField THEN Strip(<< >>)
        ELSE IF ~body.isStr THEN MsgParseError
        ELSE Strip(body.text)
    ELSE IF body.type = "dict" THEN
        IF ~body.hasField THEN Strip(<< >>)
        ELSE IF ~body.isStr THEN MsgParseError
        ELSE Strip(body.text)
    ELSE Strip(body.text)

AttemptsLeftOffByOne(att, mr) == att < mr

\* attempt < max_retries - 1
AttemptsLeft(att, mr) == att < mr - 1

IsLoadingOrForbidden(status) == status \in {"503", "403"}

\* response.status_code == 503
IsLoading(status) == status = "503"

IsRequestException(exc) == exc # ""

\* except requests.exceptions.Timeout
IsTimeout(exc) == exc = "Timeout"

\* one iteration of the retry loop, given the outcome of the POST
handle_response(out, att, mr) ==
    IF out.exc # "" THEN
        IF IsTimeout(out.exc) THEN
            IF AttemptsLeft(att, mr) THEN Retries(TimeoutBackoff)
            ELSE Returns(MsgTimedOut)
        ELSE Returns(MsgException(out.exc))
    ELSE IF out.status = "200" THEN Returns(parse_response(out.body))
    ELSE IF IsLoading(out.status) THEN
        IF AttemptsLeft(att, mr) THEN Retries(ColdStartBackoff)
        ELSE Returns(MsgInitializing)
    ELSE IF out.status = "403" THEN Returns(MsgAccessDenied)
    ELSE Returns(MsgStatus(out.status))

----------------------------------------------------------------------------
(* The conversation session *)

\* a message of the transcript; its timestamp field is the wall clock at the
\* time of the append and is read by the rendering only
Message(role, content) == [role |-> role, content |-> content]

Greeting ==
    Message("assistant", <<"Hello! I'm your Singapore History guide. What would you like to know about Singapore's past?">>)

MsgHandlerError == <<"Sorry, I encountered an error. Please try again later.">>

DefaultMaxRetries == 2

UseRagAlways(store) == TRUE

\* if st.session_state.vector_store
UseRag(store) == store = "present"

----------------------------------------------------------------------------
(* State machine *)

Init ==
    /\ index_queries = 0
    /\ messages = <<Greeting>>
    /\ prompt \in Queries
    /\ max_retries \in RetryValues
    /\ vector_store \in {"present", "absent"}
    /\ secrets \in BOOLEAN
    /\ pc = "answer"
    /\ results = NoResults
    /\ call_site = ""
    /\ gen_prompts = << >>
    /\ attempt = 0
    /\ log = << >>
    /\ result = << >>
    /\ raised = ""

\* answer(): retrieval when the collection is there, else direct generation
answer ==
    /\ pc = "answer"
    /\ IF UseRag(vector_store)
       THEN /\ pc' = "rag"
            /\ UNCHANGED <<call_site, gen_prompts>>
       ELSE /\ pc' = "generate"
            /\ call_site' = "direct"
            /\ gen_prompts' = Append(gen_prompts, prompt)
    /\ UNCHANGED <<prompt, max_retries, vector_store, secrets, results,
                   attempt, log, result, raised, index_queries, messages>>

\* query_with_rag, the try block up to the call of the model
query_with_rag ==
    /\ pc = "rag"
    /\ \E r \in QueryOutcomes :
        /\ results' = r
        /\ index_queries' = index_queries + 1
        /\ IF r.raises THEN
               /\ pc' = "rag_except"
               /\ UNCHANGED <<call_site, gen_prompts>>
           ELSE IF Truthy(r) /\ "documents" \in r.keys THEN
               IF r.docsIsNone THEN              \* len(None) raises TypeError
                   /\ pc' = "rag_except"
                   /\ UNCHANGED <<call_site, gen_prompts>>
               ELSE IF Len(r.documents) > 0 THEN
                   /\ pc' = "generate"
                   /\ call_site' = "context"
                   /\ gen_prompts' = Append(gen_prompts, rag_prompt(r.documents[1], prompt))
               ELSE
                   /\ pc' = "generate"
                   /\ call_site' = "no_results"
                   /\ gen_prompts' = Append(gen_prompts, prompt)
           ELSE
               /\ pc' = "generate"
               /\ call_site' = "no_results"
               /\ gen_prompts' = Append(gen_prompts, prompt)
    /\ UNCHANGED <<prompt, max_retries, vector_store, secrets, attempt, log,
                   result, raised, messages>>

\* query_with_rag, the except block: fall back to the raw prompt
query_with_rag_except ==
    /\ pc = "rag_except"
    /\ pc' = "generate"
    /\ call_site' = "except"
    /\ gen_prompts' = Append(gen_prompts, prompt)
    /\ UNCHANGED <<prompt, max_retries, vector_store, secrets, results,
                   attempt, log, result, raised, index_queries, messages>>

\* query_huggingface_model, up to the retry loop: the token lookup is
\* outside every try block of the function; a KeyError raised under the
\* try block of query_with_rag is caught there, any other one propagates
query_huggingface_model ==
    /\ pc = "generate"
    /\ IF secrets THEN
           /\ pc' = "loop"
           /\ attempt' = 0
           /\ UNCHANGED raised
       ELSE IF call_site \in {"context", "no_results"} THEN
           /\ pc' = "rag_except"
           /\ UNCHANGED <<attempt, raised>>
       ELSE
           /\ pc' = "done"
           /\ raised' = "KeyError"
           /\ UNCHANGED attempt
    /\ UNCHANGED <<prompt, max_retries, vector_store, secrets, results,
                   call_site, gen_prompts, log, result, index_queries, messages>>

\* a variant in which timeouts have a budget of their own
requests_post_separate_budgets ==
    /\ pc = "loop"
    /\ attempt < max_retries
    /\ \E out \in PostOutcomes :
        LET inputs == prompt_with_context(gen_prompts[Len(gen_prompts)])
            timeouts == Len(SelectSeq(log, LAMBDA e : e.ev = "post" /\ e.out.exc = "Timeout"))
            h == handle_response(out, IF out.exc = "Timeout" THEN timeouts ELSE attempt,
                                 max_retries)
        IN IF h.returns THEN
               /\ log' = Append(log, PostEvent(inputs, out))
               /\ result' = h.text
               /\ pc' = "done"
               /\ UNCHANGED attempt
           ELSE
               /\ log' = log \o <<PostEvent(inputs, out), SleepEvent(h.secs)>>
               /\ attempt' = IF out.exc = "Timeout" THEN attempt ELSE attempt + 1
               /\ UNCHANGED <<result, pc>>
    /\ UNCHANGED <<prompt, max_retries, vector_store, secrets, results,
                   call_site, gen_prompts, raised, index_queries, messages>>

\* one iteration of `for attempt in range(max_retries)`
requests_post ==
    /\ pc = "loop"
    /\ attempt < max_retries
    /\ \E out \in PostOutcomes :
        LET inputs == prompt_with_context(gen_prompts[Len(gen_prompts)])
            h == handle_response(out, attempt, max_retries)
        IN IF h.returns THEN
               /\ log' = Append(log, PostEvent(inputs, out))
               /\ result' = h.text
               /\ pc' = "done"
               /\ UNCHANGED attempt
           ELSE
               /\ log' = log \o <<PostEvent(inputs, out), SleepEvent(h.secs)>>
               /\ attempt' = attempt + 1
               /\ UNCHANGED <<result, pc>>
    /\ UNCHANGED <<prompt, max_retries, vector_store, secrets, results,
                   call_site, gen_prompts, raised, index_queries, messages>>

\* the loop ran out of iterations without returning
retries_exhausted ==
    /\ pc = "loop"
    /\ attempt >= max_retries
    /\ result' = MsgUnable
    /\ pc' = "done"
    /\ UNCHANGED <<prompt, max_retries, vector_store, secrets, results,
                   call_site, gen_prompts, attempt, log, raised, index_queries,
                   messages>>

Next ==
    \/ answer
    \/ query_with_rag
    \/ query_with_rag_except
    \/ query_huggingface_model
    \/ requests_post
    \/ retries_exhausted

Spec == Init /\ [][Next]_vars

----------------------------------------------------------------------------
(* The chat page: one session, one script run per interaction *)

append_reply_no_except(msgs, res, exc) ==
    IF exc = "" THEN Append(msgs, Message("assistant", res)) ELSE msgs

append_reply_overwrite(msgs, res, exc) ==
    [msgs EXCEPT ![Len(msgs)] =
        Message("assistant", IF exc = "" THEN res ELSE MsgHandlerError)]

\* the try/except of the submit handler around the answer: the response is
\* appended, or the apology when the call raised
append_reply(msgs, res, exc) ==
    IF exc = "" THEN Append(msgs, Message("assistant", res))
    ELSE Append(msgs, Message("assistant", MsgHandlerError))

new_chat_messages_empty == << >>

\* the list "Start New Chat" assigns to st.session_state.messages
new_chat_messages == <<Greeting>>

\* state of a session whose script reached the chat form: the vector store
\* was set up (which needs the token), the history holds the greeting
SessionInit ==
    /\ prompt = << >>
    /\ max_retries = DefaultMaxRetries
    /\ vector_store \in {"present", "absent"}
    /\ secrets = TRUE
    /\ pc = "idle"
    /\ results = NoResults
    /\ call_site = ""
    /\ gen_prompts = << >>
    /\ attempt = 0
    /\ log = << >>
    /\ result = << >>
    /\ raised = ""
    /\ index_queries = 0
    /\ messages = <<Greeting>>

\* (with the default max_retries the loop of query_huggingface_model always
\* returns from its body, so retries_exhausted is no step of a session)

\* "Send" pressed: an empty input is ignored, else the user's message is
\* appended and the answer is computed
submit ==
    /\ pc = "idle"
    /\ Len(messages) < 1 + 2 * MaxTurns
    /\ \E user_input \in Queries \cup {<< >>} :
        IF user_input = << >> THEN UNCHANGED vars
        ELSE /\ messages' = Append(messages, Message("user", user_input))
             /\ prompt' = user_input
             /\ pc' = "answer"
             /\ UNCHANGED <<max_retries, vector_store, secrets, results,
                            call_site, gen_prompts, attempt, log, result,
                            raised, index_queries>>

\* end of the submit handler: the reply is appended and the script reruns
append_response ==
    /\ pc = "done"
    /\ messages' = append_reply(messages, result, raised)
    /\ pc' = "idle"
    /\ prompt' = << >>
    /\ results' = NoResults
    /\ call_site' = ""
    /\ gen_prompts' = << >>
    /\ attempt' = 0
    /\ log' = << >>
    /\ result' = << >>
    /\ raised' = ""
    /\ index_queries' = 0
    /\ UNCHANGED <<max_retries, vector_store, secrets>>

\* "Start New Chat" pressed
start_new_chat ==
    /\ pc = "idle"
    /\ messages # new_chat_messages
    /\ messages' = new_chat_messages
    /\ UNCHANGED <<prompt, max_retries, vector_store, secrets, pc, results,
                   call_site, gen_prompts, attempt, log, result, raised,
                   index_queries>>

\* the secrets store is reloaded between two interactions and the token
\* appears or disappears
secrets_reloaded ==
    /\ pc = "idle"
    /\ secrets' = ~secrets
    /\ UNCHANGED <<prompt, max_retries, vector_store, pc, results, call_site,
                   gen_prompts, attempt, log, result, raised, index_queries,
                   messages>>

SessionNext ==
    \/ submit
    \/ answer
    \/ query_with_rag
    \/ query_with_rag_except
    \/ query_huggingface_model
    \/ requests_post
    \/ append_response
    \/ start_new_chat
    \/ secrets_reloaded

SessionSpec == SessionInit /\ [][SessionNext]_vars

----------------------------------------------------------------------------
(* Observations on a run *)

Posts == SelectSeq(log, LAMBDA e : e.ev = "post")

RECURSIVE TotalWait(_)
TotalWait(l) == IF l = << >> THEN 0 ELSE l[1].secs + TotalWait(Tail(l))

TypeOK ==
    /\ pc \in {"idle", "answer", "rag", "rag_except", "generate", "loop", "done"}
    /\ attempt \in 0..MaxRetriesBound + 1
    /\ Len(gen_prompts) <= 2

----------------------------------------------------------------------------
(* Properties *)

IsPost(i) == i \in 1..Len(log) /\ log[i].ev = "post"

\* the retrieval step ran, returned, and yielded zero documents
ZeroDocuments(r) ==
    /\ ~r.raises
    /\ ~r.docsIsNone
    /\ \/ r.isNone
       \/ "documents" \notin r.keys
       \/ r.documents = << >>
       \/ r.documents = << << >> >>

\* C1: answer() always ends by returning a non-empty text and never by
\* raising, whatever the query, the index condition and the backend do.
AnswerReturnsNonEmptyText ==
    pc = "done" => (raised = "" /\ result # << >>)

\* C2: when every request is answered with 503, the backend is called
\* exactly max_retries times and the "initializing" message is returned.
AllLoading == Posts # << >> /\ \A i \in 1..Len(Posts) : Posts[i].out.status = "503"

RetryBound ==
    AllLoading =>
        /\ Len(Posts) <= max_retries
        /\ pc = "done" => (Len(Posts) = max_retries /\ result = MsgInitializing
                           /\ raised = "")
        /\ pc # "done" => Len(Posts) < max_retries

RetryBoundWitness ==
    /\ AllLoading
    /\ pc = "done"
    /\ max_retries >= 2
    /\ Len(Posts) = max_retries
    /\ result = MsgInitializing

\* C3: a call answered with 403 is the last event of the run: the function
\* has returned "access denied", no sleep and no call follows it.
ForbiddenShortCircuit ==
    \A i \in 1..Len(log) :
        (IsPost(i) /\ log[i].out.status = "403") =>
            /\ i = Len(log)
            /\ pc = "done"
            /\ result = MsgAccessDenied
            /\ raised = ""

ForbiddenWitness ==
    /\ max_retries >= 2
    /\ Len(Posts) = 2
    /\ Posts[2].out.status = "403"
    /\ result = MsgAccessDenied

\* C4: a 200 response whose body lacks generated_text, or does not parse,
\* yields the parse-error message.
MalformedBody(b) ==
    \/ ~b.parses
    \/ b.parses /\ b.type = "list" /\ b.len = 1 /\ b.elemIsDict /\ ~b.hasField
    \/ b.parses /\ b.type = "dict" /\ ~b.hasField

MalformedBodyGivesParseError ==
    \A i \in 1..Len(log) :
        (IsPost(i) /\ log[i].out.status = "200" /\ MalformedBody(log[i].out.body)) =>
            (pc = "done" /\ raised = "" /\ result = MsgParseError)

\* C5: when every call times out, max_retries calls are made, the "timed
\* out" message is returned, and the waits add up to (max_retries - 1) * 10.
AllTimeouts == Posts # << >> /\ \A i \in 1..Len(Posts) : Posts[i].out.exc = "Timeout"

TimeoutExhaustion ==
    (AllTimeouts /\ pc = "done") =>
        /\ Len(Posts) = max_retries
        /\ result = MsgTimedOut
        /\ raised = ""
        /\ TotalWait(log) = (max_retries - 1) * 10

TimeoutExhaustionWitness ==
    /\ AllTimeouts
    /\ pc = "done"
    /\ max_retries >= 2
    /\ TotalWait(log) = (max_retries - 1) * 10
    /\ result = MsgTimedOut

\* C6: when retrieval yields zero documents, the model function is called
\* with the raw query, never with a context-template prompt.
EmptyRetrievalUsesRawQuery ==
    (vector_store = "present" /\ ZeroDocuments(results) /\ pc \notin {"answer", "rag"}) =>
        /\ \A i \in 1..Len(gen_prompts) : gen_prompts[i] = prompt
        /\ \A i \in 1..Len(Posts) : Posts[i].inputs = prompt_with_context(prompt)

\* C7: when the index query raises, the failure is caught, the model
\* function is called with the raw query and its text is returned.
RetrievalFailureFallsBack ==
    (results.raises /\ pc \notin {"answer", "rag", "rag_except"}) =>
        /\ gen_prompts = <<prompt>>
        /\ \A i \in 1..Len(Posts) : Posts[i].inputs = prompt_with_context(prompt)
        /\ raised = ""

\* C8: when the index returned documents d1..dn (n >= 1), every prompt
\* sent to the backend holds d1..dn in that order, separated by newlines,
\* then the instruction, then the question, then the "Answer:" cue.
Occurs(s, sub, p) ==
    /\ p >= 1
    /\ p + Len(sub) - 1 <= Len(s)
    /\ \A k \in 1..Len(sub) : s[p + k - 1] = sub[k]

RECURSIVE Offset(_, _)
Offset(docs, k) ==
    IF k = 1 THEN 0 ELSE Offset(docs, k - 1) + Len(docs[k - 1]) + 1

InOrder(s, docs, q) ==
    \E p \in 1..Len(s) :
        /\ \A k \in 1..Len(docs) :
            /\ Occurs(s, docs[k], p + Offset(docs, k))
            /\ k < Len(docs) => s[p + Offset(docs, k) + Len(docs[k])] = "\n"
        /\ \E i \in (p + Offset(docs, Len(docs)) + Len(docs[Len(docs)]))..Len(s) :
            /\ s[i] = "Based on this context, answer the following question about Singapore history:\n"
            /\ \E j \in (i + 1)..Len(s) :
                /\ Occurs(s, q, j)
                /\ \E a \in (j + Len(q))..Len(s) : s[a] = "Answer:"

DocumentsReturned(r) ==
    /\ ~r.raises
    /\ ~r.isNone
    /\ "documents" \in r.keys
    /\ ~r.docsIsNone
    /\ Len(r.documents) >= 1
    /\ Len(r.documents[1]) >= 1

PromptConstruction ==
    (vector_store = "present" /\ DocumentsReturned(results) /\ pc \notin {"answer", "rag"}) =>
        /\ gen_prompts # << >> /\ InOrder(gen_prompts[1], results.documents[1], prompt)
        /\ \A i \in 1..Len(Posts) : InOrder(Posts[i].inputs, results.documents[1], prompt)

PromptConstructionWitness ==
    /\ DocumentsReturned(results)
    /\ Len(results.documents[1]) = 2
    /\ results.documents[1][1] # results.documents[1][2]
    /\ Len(prompt) > 1
    /\ Len(Posts) = 2
    /\ pc = "done"

\* C9: query_huggingface_model never raises to its caller.
GenerateNeverRaises == raised = ""

\* C10: a call that ends with a status other than 200, 503, 403, or with a
\* transport failure other than a timeout, is the last event of the run:
\* the function returned the generic error message for it.
NonRetryable(out) ==
    \/ out.exc = "" /\ out.status \notin {"200", "503", "403"}
    \/ out.exc \notin {"", "Timeout"}

GenericError(out) ==
    IF out.exc = ""
    THEN <<"Sorry, I encountered an error (Status code: ", out.status, "). Please try again later.">>
    ELSE <<"An error occurred: ", out.exc, ". Please try again later.">>

NoRetryOnNonRetryable ==
    \A i \in 1..Len(log) :
        (IsPost(i) /\ NonRetryable(log[i].out)) =>
            /\ i = Len(log)
            /\ pc = "done"
            /\ raised = ""
            /\ result = GenericError(log[i].out)

NoRetryWitness ==
    /\ max_retries >= 2
    /\ Len(Posts) = 2
    /\ Posts[2].out.exc = "ConnectionError"
    /\ pc = "done"
    /\ result = GenericError(Posts[2].out)

----------------------------------------------------------------------------
(* Properties of the session and of the retry loop *)

Last(seq) == seq[Len(seq)]

IsPrefix(a, b) == Len(a) <= Len(b) /\ \A k \in 1..Len(a) : a[k] = b[k]

\* C11: with no vector store a submitted question makes no index query,
\* and the model function is called once, directly, with the question as
\* typed; no context template is ever sent.
IndexAbsentDirect ==
    vector_store = "absent" =>
        /\ index_queries = 0
        /\ pc \notin {"rag", "rag_except"}
        /\ pc \in {"generate", "loop", "done"} =>
            /\ Last(messages) = [role |-> "user", content |-> prompt]
            /\ call_site = "direct"
            /\ gen_prompts = <<prompt>>
            /\ \A i \in 1..Len(Posts) :
                /\ Posts[i].inputs = SystemPreamble \o <<"Question: ">> \o prompt
                                        \o <<"\n", "\n", "Answer:">>
                /\ \A k \in 1..Len(Posts[i].inputs) :
                    Posts[i].inputs[k] # "Context information:\n"

IndexAbsentWitness ==
    /\ vector_store = "absent"
    /\ pc = "done"
    /\ Len(messages) = 4
    /\ Len(Posts) = 2
    /\ Posts[2].out.status = "200"

\* C12: every step that leaves the session waiting for input leaves an
\* assistant message last; while a turn is in flight the last message is
\* the user's; the step that ends the turn appends exactly one assistant
\* message after it, also when the answer raised.
TurnStep ==
    /\ pc' = "idle" => Last(messages').role = "assistant"
    /\ pc' # "idle" => Last(messages') = [role |-> "user", content |-> prompt']
    /\ (pc = "idle" /\ pc' # "idle") =>
            /\ Len(messages') = Len(messages) + 1
            /\ IsPrefix(messages, messages')
    /\ (pc # "idle" /\ pc' # "idle") => messages' = messages
    /\ (pc # "idle" /\ pc' = "idle") =>
            /\ pc = "done"
            /\ Len(messages') = Len(messages) + 1
            /\ IsPrefix(messages, messages')
            /\ Last(messages').role = "assistant"
            /\ raised = "" => Last(messages').content = result
            /\ raised # "" => Last(messages').content # << >>

EveryTurnAnswered == [][TurnStep]_vars

EveryTurnAnsweredWitness ==
    /\ pc = "idle"
    /\ Len(messages) = 5
    /\ messages[3].content = <<"Sorry, I encountered an error. Please try again later.">>
    /\ messages[5].content = <<"an", " ", "swer">>

\* C13: a step either keeps the existing messages as a prefix of the new
\* list, or is a reset, between two turns, to the greeting alone.
AppendOnlyStep ==
    \/ IsPrefix(messages, messages')
    \/ pc = "idle" /\ pc' = "idle" /\ messages' = <<Greeting>>

AppendOnly == [][AppendOnlyStep]_vars

AppendOnlyWitness ==
    /\ pc = "idle"
    /\ Len(messages) = 5
    /\ messages[2] # messages[4]
    /\ messages[3] # messages[5]

\* C14: a well-formed 200 response ends the run: its generated_text,
\* trimmed of surrounding whitespace, is returned and no call follows.
WellFormed(b) ==
    /\ b.parses
    /\ b.type = "dict" \/ (b.type = "list" /\ b.len = 1 /\ b.elemIsDict)
    /\ b.hasField
    /\ b.isStr

IsBlank(c) == c \in {" ", "\n"}

Trimmed(text, r) ==
    \E a \in 0..Len(text) :
        /\ \A k \in 1..a : IsBlank(text[k])
        /\ a + Len(r) <= Len(text)
        /\ \A k \in 1..Len(r) : r[k] = text[a + k]
        /\ \A k \in (a + Len(r) + 1)..Len(text) : IsBlank(text[k])
        /\ r # << >> => ~IsBlank(r[1]) /\ ~IsBlank(r[Len(r)])

SuccessAfterRetries ==
    \A i \in 1..Len(log) :
        (IsPost(i) /\ log[i].out.status = "200" /\ WellFormed(log[i].out.body)) =>
            /\ i = Len(log)
            /\ pc = "done"
            /\ raised = ""
            /\ Trimmed(log[i].out.body.text, result)
            /\ \A j \in 1..(i - 1) :
                IsPost(j) => (log[j].out.status = "503" \/ log[j].out.exc = "Timeout")

SuccessAfterRetriesWitness ==
    /\ Len(Posts) = 3
    /\ Posts[1].out.status = "503"
    /\ Posts[2].out.exc = "Timeout"
    /\ Posts[3].out.status = "200"
    /\ WellFormed(Posts[3].out.body)
    /\ Posts[3].out.body.text = <<" ", "an", " ", "swer", "\n">>
    /\ result = <<"an", " ", "swer">>

\* C15: the two retry kinds share one budget: never more than max_retries
\* calls in all, and a run that ends on a 503 or a timeout used the whole
\* budget and returns the message of that last outcome.
SharedBudget ==
    /\ max_retries >= 0 => Len(Posts) <= max_retries
    /\ max_retries < 0 => Posts = << >>
    /\ (pc = "done" /\ Posts # << >> /\ Last(Posts).out.status = "503") =>
            (Len(Posts) = max_retries /\ result = MsgInitializing)
    /\ (pc = "done" /\ Posts # << >> /\ Last(Posts).out.exc = "Timeout") =>
            (Len(Posts) = max_retries /\ result = MsgTimedOut)

SharedBudgetWitness ==
    /\ pc = "done"
    /\ max_retries = 3
    /\ Len(Posts) = 3
    /\ Posts[1].out.exc = "Timeout"
    /\ Posts[2].out.status = "503"
    /\ Posts[3].out.exc = "Timeout"
    /\ result = MsgTimedOut

\* C16: every answer() invokes the model function exactly once.
OneGenerationPerAnswer ==
    pc = "done" => Len(gen_prompts) = 1

\* C17: when the function returns, waits = calls - 1 and the last event is
\* a call; every wait directly follows a 503 (15 units) or a timeout (10).
Sleeps == SelectSeq(log, LAMBDA e : e.ev = "sleep")

BackoffBetweenAttempts ==
    /\ \A i \in 1..Len(log) :
        log[i].ev = "sleep" =>
            /\ i > 1
            /\ log[i - 1].ev = "post"
            /\ \/ log[i - 1].out.status = "503" /\ log[i].secs = 15
               \/ log[i - 1].out.exc = "Timeout" /\ log[i].secs = 10
    /\ (pc = "done" /\ raised = "" /\ max_retries >= 1) =>
            /\ Len(Sleeps) = Len(Posts) - 1
            /\ Last(log).ev = "post"

BackoffWitness ==
    /\ pc = "done"
    /\ Len(Posts) = 3
    /\ Len(Sleeps) = 2
    /\ Sleeps[1].secs = 15
    /\ Sleeps[2].secs = 10

\* C19: once the loop is reached, the "Unable to get a response" message
\* is returned exactly when max_retries <= 0, after zero calls; with
\* max_retries >= 1 the function returns right after a call.
UnableOnlyWithoutAttempts ==
    (pc = "done" /\ raised = "") =>
        /\ (result = <<"Unable to get a response after multiple attempts. Please try again later.">>)
                <=> max_retries <= 0
        /\ max_retries <= 0 => log = << >>
        /\ max_retries >= 1 => (log # << >> /\ Last(log).ev = "post")

UnableWitness ==
    /\ pc = "done"
    /\ max_retries = 0
    /\ secrets
    /\ result = MsgUnable
    /\ log = << >>

\* C18: the history is never empty and starts with the greeting; between
\* turns the messages after it alternate user, assistant.
GreetingThenAlternation ==
    /\ messages # << >>
    /\ messages[1] = [role |-> "assistant",
                      content |-> <<"Hello! I'm your Singapore History guide. What would you like to know about Singapore's past?">>]
    /\ pc = "idle" =>
        /\ Len(messages) % 2 = 1
        /\ \A i \in 2..Len(messages) :
            messages[i].role = IF i % 2 = 0 THEN "user" ELSE "assistant"

GreetingWitness ==
    /\ pc = "idle"
    /\ Len(messages) = 5
    /\ messages[4].role = "user"
    /\ messages[5].role = "assistant"

====
